---- MODULE Spec2Model ----
(***************************************************************************)
(* A model of deep-deep's Q-learning spider (deepdeep/spiders/qspider.py). *)
(*                                                                         *)
(* Scores and rewards are integers counting tenths (ScoreScale): the score *)
(* 0.2 is 2, the reward threshold 0.1 is 1.  The estimator's weights,      *)
(* predictions and targets are integers counting units of 1 / WeightScale; *)
(* a quotient is truncated to the unit.  The discount factor gamma = 0.5   *)
(* is the fraction GammaNum / GammaDen, and a TD target is kept multiplied *)
(* by GammaDen.  The learning rate eta0 = 0.01 is 1 / Eta0Den.  An integer *)
(* priority is a prediction times 10000, truncated.                        *)
(*                                                                         *)
(* QSpider.parse is a generator: the code between two yields is one step.  *)
(* The framework resumes the generator from its event loop, so steps of    *)
(* other callbacks may come between two steps of one parse.                *)
(*                                                                         *)
(* The request queues and the domain state tracker (deepdeep.queues,       *)
(* deepdeep.utils) are modelled from their specification: a domain queue   *)
(* is the sequence of its requests in push order, and the scheduler serves *)
(* any domain with a non-empty queue: its rule for choosing among them is  *)
(* not fixed by its specification.                                         *)
(*                                                                         *)
(* The three looping calls fire at any moment while they are running; a    *)
(* looping call stops running when the function it calls raises.           *)
(***************************************************************************)
EXTENDS Integers, Sequences, FiniteSets, TLC

\* ------------------------------------------------------------------ bounds
NumDomains == 2
NumScoreTypes == 1
NumLinkKinds == 1
MaxScore == 2
MaxNodes == 4
ConcurrentRequests == 2
ManySeeds == 501
\* the min_response_count of an explicit call of update_request_priorities
ExplicitMinResponseCount == 2

\* --------------------------------------------------------------- constants
None == -1
GammaNum == 1
GammaDen == 2
ScoreScale == 10
WeightScale == 1000000000
Eta0Den == 100
InterceptDecayDen == 100
L2ShrinkDen == 1000000
RewardThreshold == 1
UntrainedPrediction == 0
MinResponseCountFloor == 500
epsilon == 0
FLOAT_PRIORITY_MULTIPLIER == 10000

Domains == 1..NumDomains
ScoreTypes == 1..NumScoreTypes
LinkKinds == 1..NumLinkKinds
NodeIds == 0..(MaxNodes - 1)

\* the scores a response may have, in tenths: 0, 0.1, 0.4, ...  They are
\* spaced so that a reward of exactly the threshold 0.1 occurs, and so do
\* differences of state large enough to show in an integer priority.
ScoreLevels == {k * k : k \in 0..MaxScore}
ScoreDicts == [ScoreTypes -> ScoreLevels]

\* the three LoopingCalls QSpider.__init__ starts
Tasks == {"log", "checkpoint", "update_link_scores"}

VARIABLES
    G,                      \* crawl graph nodes: node id -> attributes
    edges,                  \* crawl graph edges: records [src, dst, link]
    node_ids,               \* itertools.count(): the next node id
    response_count,         \* BaseSpider.response_count
    scores_recalculated_at, \* response_count at the last sweep
    domain_scores,          \* MaxScores: known domain -> best scores so far
    rl_model,               \* TDRegressor: trained flag and linear weights
    queues,                 \* scheduler: domain -> requests in push order
    inflight,               \* requests popped by the engine, being downloaded
    parsing,                \* suspended QSpider.parse generators
    learned,                \* the last learn_from_response call, as it ran
    running,                \* the LoopingCalls whose .running is True
    is_closed,              \* closed(reason) has run
    crawl_pickle,           \* what closed wrote: the graph, with the tasks
                            \* it had stopped and those still running then
    closed_raised           \* closed(reason) ended with an exception

task_vars == <<running, is_closed, crawl_pickle, closed_raised>>

vars == <<G, edges, node_ids, response_count, scores_recalculated_at,
          domain_scores, rl_model, queues, inflight, parsing, learned,
          running, is_closed, crawl_pickle, closed_raised>>

\* ----------------------------------------------------------------- helpers
Max(a, b) == IF a >= b THEN a ELSE b

\* Python's int() on a quotient: truncation towards zero.
ToInt(num, den) == IF num >= 0 THEN num \div den ELSE -((-num) \div den)

RECURSIVE SumTo(_, _)
SumTo(f, n) == IF n = 0 THEN 0 ELSE f[n] + SumTo(f, n - 1)

\* sum(...) over the items of a score dict
SumScores(f) == SumTo(f, NumScoreTypes)

\* ------------------------------------------------- score_pages and utils
get_constant_scores(v) == [k \in ScoreTypes |-> v]

\* dict_subtract(a, b): key-wise a[k] - b[k]
dict_subtract(a, b) == [k \in ScoreTypes |-> a[k] - b[k]]

\* DomainStateTracker (MaxScores): one score dict per known domain.
\* state(domain): the scores of the domain, zero for a domain never updated.
MaxScores_getitem(ds, d) ==
    IF d \in DOMAIN ds THEN ds[d] ELSE get_constant_scores(0)

\* update(domain, observed): state[type] = max(state[type], observed[type]);
\* the domain is known from its first update on.
MaxScores_update(ds, d, scores) ==
    (d :> [k \in ScoreTypes |-> Max(MaxScores_getitem(ds, d)[k], scores[k])]) @@ ds

MaxScores_len(ds) == Cardinality(DOMAIN ds)

\* -------------------------------------------------------------- TDRegressor
\* SGDRegressor(learning_rate="constant", average=True, ...) before its
\* first partial_fit (coef_ is None).  w_s, w_a, b: the weights the
\* gradient steps work on (standard_coef_, standard_intercept_), avg_*:
\* their running average, which is coef_ and intercept_; t: the samples
\* seen.  Weights and predictions count units of 1 / WeightScale.
ZeroModel ==
    [trained |-> FALSE,
     t |-> 0,
     w_s |-> [k \in ScoreTypes |-> 0],
     w_a |-> [a \in LinkKinds |-> 0],
     b |-> 0,
     avg_w_s |-> [k \in ScoreTypes |-> 0],
     avg_w_a |-> [a \in LinkKinds |-> 0],
     avg_b |-> 0]

\* the decision function w . x + intercept on the vector
\* [state ; one-hot action] of _vectorize; the state's scores count tenths
decision_function(w_s, w_a, b, s, a) ==
    ToInt(SumScores([k \in ScoreTypes |-> w_s[k] * s[k]]), ScoreScale)
    + (IF a \in LinkKinds THEN w_a[a] ELSE 0) + b

\* SGDRegressor.predict: the decision function of the averaged weights
Q_predict(m, s, a) == decision_function(m.avg_w_s, m.avg_w_a, m.avg_b, s, a)

\* the L2 penalty of one step: w * (1 - eta0 * alpha), with the default
\* alpha = 0.0001 (penalty="l2" leaves no L1 share); eta0 * alpha is
\* 1 / L2ShrinkDen
l2_scale(w) == w - ToInt(w, L2ShrinkDen)

\* SGDRegressor.partial_fit on one sample, with the squared loss and the
\* constant learning rate eta0: the weights are scaled by the L2 penalty,
\* the weights of the active features move by eta0 * (target - prediction)
\* times the feature, the intercept by that times the decay used for sparse
\* input, and the running averages take in the new weights.  target2 is
\* the target times GammaDen.  Quotients are truncated to the unit.
Q_partial_fit(m, s, a, target2) ==
    LET p == decision_function(m.w_s, m.w_a, m.b, s, a)
        update == ToInt(target2 - GammaDen * p, GammaDen * Eta0Den)
        t == m.t + 1
        w_s == [k \in ScoreTypes |->
                   l2_scale(m.w_s[k]) + ToInt(update * s[k], ScoreScale)]
        w_a == [x \in LinkKinds |->
                   l2_scale(m.w_a[x]) + (IF x = a THEN update ELSE 0)]
        b == m.b + ToInt(update, InterceptDecayDen)
    IN  [trained |-> TRUE,
         t |-> t,
         w_s |-> w_s,
         w_a |-> w_a,
         b |-> b,
         avg_w_s |-> [k \in ScoreTypes |->
                         m.avg_w_s[k] + ToInt(w_s[k] - m.avg_w_s[k], t)],
         avg_w_a |-> [x \in LinkKinds |->
                         m.avg_w_a[x] + ToInt(w_a[x] - m.avg_w_a[x], t)],
         avg_b |-> m.avg_b + ToInt(b - m.avg_b, t)]

\* mutant: the untrained default is 1.0 instead of 0.0
TDRegressor_predict_default_one(m, s, a) ==
    IF ~m.trained THEN WeightScale ELSE Q_predict(m, s, a)

TDRegressor_predict(m, s, a) ==
    IF ~m.trained THEN UntrainedPrediction ELSE Q_predict(m, s, a)

\* mutant: the bootstrap prediction is not discounted by gamma
TDRegressor_future2_undiscounted(m, s_t1, a_t1) ==
    IF a_t1 = None \/ ~m.trained
    THEN 0
    ELSE GammaDen * Q_predict(m, s_t1, a_t1)

\* future_reward of TDRegressor.update, times GammaDen
TDRegressor_future2(m, s_t1, a_t1) ==
    IF a_t1 = None \/ ~m.trained
    THEN 0
    ELSE GammaNum * Q_predict(m, s_t1, a_t1)

\* R_observed of TDRegressor.update, times GammaDen
TDRegressor_target2(m, r_t1, s_t1, a_t1) ==
    GammaDen * r_t1 * (WeightScale \div ScoreScale) + TDRegressor_future2(m, s_t1, a_t1)

TDRegressor_update(m, s_t, a_t, r_t1, s_t1, a_t1) ==
    Q_partial_fit(m, s_t, a_t, TDRegressor_target2(m, r_t1, s_t1, a_t1))

\* ------------------------------------------------------------- crawl graph
\* mutant: the edge is drawn from the discovered node to its parent
add_edge_reversed(es, u, v, link) ==
    {e \in es : ~(e.src = v /\ e.dst = u)} \cup {[src |-> v, dst |-> u, link |-> link]}

\* G.add_edge(u, v, link=link): one edge per (u, v), attributes replaced
add_edge(es, u, v, link) ==
    {e \in es : ~(e.src = u /\ e.dst = v)} \cup {[src |-> u, dst |-> v, link |-> link]}

incoming_link_dicts(es, node_id) == {e \in es : e.dst = node_id}

\* QSpider._get_action: the link of the incoming edge, None for a seed node
get_action(es, node_id) ==
    LET inc == incoming_link_dicts(es, node_id)
    IN  IF inc = {} THEN None
        ELSE (CHOOSE e \in inc : \A f \in inc : e.src <= f.src).link

\* ---------------------------------------------------------- request queues
\* mutant: the domain queues are created with fifo=False
get_scheduler_queue_lifo == [fifo |-> FALSE, eps |-> epsilon]

\* QSpider.get_scheduler_queue: the arguments the queues are created with,
\* RequestsPriorityQueue(fifo=True) and BalancedPriorityQueue(eps=epsilon)
get_scheduler_queue == [fifo |-> TRUE, eps |-> epsilon]

\* RequestsPriorityQueue: the highest priority first, and among equal
\* priorities the request pushed first (fifo) or pushed last (not fifo).
RPQ_top(q) ==
    CHOOSE i \in 1..Len(q) :
        /\ \A j \in 1..Len(q) : q[j].priority <= q[i].priority
        /\ IF get_scheduler_queue.fifo
           THEN \A j \in 1..(i - 1) : q[j].priority < q[i].priority
           ELSE \A j \in (i + 1)..Len(q) : q[j].priority < q[i].priority

RPQ_push(q, req) == Append(q, req)

RPQ_pop(q) == SubSeq(q, 1, RPQ_top(q) - 1) \o SubSeq(q, RPQ_top(q) + 1, Len(q))

\* update_all_priorities(fn): fn maps each queued request to its new priority
RPQ_update_all_priorities(q, fn) ==
    [i \in 1..Len(q) |-> [q[i] EXCEPT !.priority = fn[q[i]]]]

\* BalancedPriorityQueue.get_domains(): the domains that have a queue
get_domains(qs) == {d \in Domains : qs[d] # <<>>}

\* BalancedPriorityQueue.pop: the domains the next pop may serve.  With
\* probability eps it is any domain with a non-empty queue; otherwise it is
\* the domain the scheduler's fairness rule picks among them.  The rule is
\* not fixed (round-robin is one rule that would do), so either way the pop
\* may serve any domain with a non-empty queue.
BPQ_pop_domains(qs, eps) == get_domains(qs)

\* ------------------------------------------------------------------ QSpider
get_domain_state(ds, d) == MaxScores_getitem(ds, d)

get_request_priority(ds, m, es, d, node_id) ==
    ToInt(TDRegressor_predict(m, get_domain_state(ds, d), get_action(es, node_id)),
          WeightScale \div FLOAT_PRIORITY_MULTIPLIER)

\* mutant: the test for a missing node id never holds
not_node_id_never(node_id) == FALSE

\* "not node_id" of on_offdomain_request_dropped and _get_priority: true of
\* None, and of the id 0
not_node_id(node_id) == node_id = None \/ node_id = 0

\* mutant: the new priority is added to the one the request has
sweep_priority_accumulate(ds, m, es, d, req) ==
    IF not_node_id(req.node_id)
    THEN req.priority
    ELSE req.priority + get_request_priority(ds, m, es, d, req.node_id)

\* mutant: every request keeps the priority it has
sweep_priority_keep(ds, m, es, d, req) == req.priority

\* _get_priority of update_domain_request_priorities
sweep_priority(ds, m, es, d, req) ==
    IF not_node_id(req.node_id)
    THEN req.priority
    ELSE get_request_priority(ds, m, es, d, req.node_id)

update_domain_request_priorities(qs, ds, m, es, d) ==
    LET fn == [req \in {qs[d][i] : i \in 1..Len(qs[d])} |->
                  sweep_priority(ds, m, es, d, req)]
    IN  [qs EXCEPT ![d] = RPQ_update_all_priorities(qs[d], fn)]

\* G.add_node(node_id, url=..., visited=True, ok=ok, response_id=...)
new_node(d, visited, ok) ==
    [domain |-> d, visited |-> visited, ok |-> ok,
     has_scores |-> FALSE, scores |-> get_constant_scores(0)]

\* QSpider.update_response_node: the graph after the response of a request
\* is recorded under node_id (a fresh id for a seed request)
update_response_node(g, node_id, d, ok) ==
    LET status == IF ok THEN "ok" ELSE "failed"
    IN  IF node_id \in DOMAIN g
        THEN [g EXCEPT ![node_id] = [@ EXCEPT !.visited = TRUE, !.ok = status]]
        ELSE (node_id :> new_node(d, TRUE, status)) @@ g

\* observed_scores of QSpider.store_observed_scores
observed_scores(g, node_id, response_scores) ==
    IF g[node_id].ok = "ok" THEN response_scores ELSE get_constant_scores(0)

store_observed_scores(g, node_id, response_scores) ==
    [g EXCEPT ![node_id] =
        [@ EXCEPT !.has_scores = TRUE,
                  !.scores = observed_scores(g, node_id, response_scores)]]

\* mutant: the domain state is overwritten by the page's scores
update_domain_state_overwrite(ds, g, node_id, d) ==
    (d :> g[node_id].scores) @@ ds

\* QSpider.update_domain_state
update_domain_state(ds, g, node_id, d) ==
    IF ScoreTypes = {} THEN ds ELSE MaxScores_update(ds, d, g[node_id].scores)

\* mutant: s_t without .copy(), a live reference that the update changes
snapshot_s_t_alias(ds, ds1, d) == get_domain_state(ds1, d)

\* s_t of learn_from_response: get_domain_state(domain).copy(), taken
\* before update_domain_state (ds: the tracker before it, ds1: after it)
snapshot_s_t(ds, ds1, d) == get_domain_state(ds, d)

\* mutant: the deltas are summed without max(v, 0.0)
reward_signed(observed, s_t) ==
    SumScores([k \in ScoreTypes |-> dict_subtract(observed, s_t)[k]])

\* r_t1 of learn_from_response
reward(observed, s_t) ==
    SumScores([k \in ScoreTypes |-> Max(dict_subtract(observed, s_t)[k], 0)])

\* a_t1 of learn_from_response: the action of the domain queue's next request
lookahead_action(qs, es, d) ==
    IF qs[d] = <<>> THEN None
    ELSE LET next_node_id == qs[d][RPQ_top(qs[d])].node_id
         IN  IF next_node_id = None THEN None ELSE get_action(es, next_node_id)

\* mutant: no early return for a node without an incoming link
skips_learning_never(a_t) == FALSE

\* the "if not a_t: return" test of learn_from_response
skips_learning(a_t) == a_t = None

\* QSpider.learn_from_response: the graph, the domain states, the model and
\* the queues after it, and a record of the values it computed
learn_from_response(g, es, ds, m, qs, node_id, response_scores) ==
    LET d == g[node_id].domain
        observed == observed_scores(g, node_id, response_scores)
        g2 == store_observed_scores(g, node_id, response_scores)
        ds1 == update_domain_state(ds, g2, node_id, d)
        s_t == snapshot_s_t(ds, ds1, d)
        s_t1 == get_domain_state(ds1, d)
        r_t1 == reward(observed, s_t)
        a_t == get_action(es, node_id)
        qs1 == IF r_t1 > RewardThreshold
               THEN update_domain_request_priorities(qs, ds1, m, es, d)
               ELSE qs
        a_t1 == lookahead_action(qs1, es, d)
        rec == [node |-> node_id, observed |-> observed, s_t |-> s_t,
                s_t1 |-> s_t1, r_t1 |-> r_t1, a_t |-> a_t]
    IN  IF skips_learning(a_t)
        THEN [G |-> g2, ds |-> ds1, m |-> m, qs |-> qs,
              learned |-> rec @@ [a_t1 |-> None, updated |-> FALSE, target2 |-> 0]]
        ELSE [G |-> g2, ds |-> ds1, qs |-> qs1,
              m |-> TDRegressor_update(m, s_t, a_t, r_t1, s_t1, a_t1),
              learned |-> rec @@ [a_t1 |-> a_t1, updated |-> TRUE,
                  target2 |-> TDRegressor_target2(m, r_t1, s_t1, a_t1)]]

\* the attributes QSpider.on_offdomain_request_dropped writes
dropped_node(node) ==
    [node EXCEPT !.visited = TRUE, !.ok = "failed",
                 !.has_scores = TRUE, !.scores = get_constant_scores(0)]

\* QSpider.on_offdomain_request_dropped: the graph after it.  G.add_node
\* updates the attributes of a node it has and adds a node it has not.
drop_graph(g, req) ==
    IF not_node_id(req.node_id) THEN g
    ELSE IF req.node_id \in DOMAIN g
         THEN [g EXCEPT ![req.node_id] = dropped_node(@)]
         ELSE (req.node_id :> dropped_node(new_node(req.domain, TRUE, "failed"))) @@ g

\* min_response_count of update_request_priorities
min_response_count(arg, ds) ==
    IF arg = None THEN Max(MinResponseCountFloor, MaxScores_len(ds)) ELSE arg

\* update_request_priorities: the test that ends the call before the sweep
too_few_responses(arg, ds, count, recalculated_at) ==
    LET mrc == min_response_count(arg, ds)
    IN  mrc # 0 /\ count - recalculated_at <= mrc

\* mutant: the id counter is read without being advanced
ids_after_response_peek(meta_node_id, ids) == ids

\* update_response_node: the id of the response's node, next(self.node_ids)
\* for a seed response, and the counter after it
response_node_id(meta_node_id, ids) ==
    IF meta_node_id = None THEN ids ELSE meta_node_id

ids_after_response(meta_node_id, ids) ==
    IF meta_node_id = None THEN ids + 1 ELSE ids

\* mutant: closed stops every task without looking at task.running
task_running_always(run, t) == TRUE

\* "if task.running" of closed
task_running(run, t) == t \in run

\* task.stop(): LoopingCall.stop asserts that the call is running
LoopingCall_stop(run, t) == [running |-> run \ {t}, raised |-> t \notin run]

\* the loop of closed over its list of tasks, from the i-th task on
RECURSIVE stop_tasks(_, _)
stop_tasks(run, i) ==
    LET tasks == <<"log", "checkpoint", "update_link_scores">>
    IN  IF i > Len(tasks) THEN [running |-> run, raised |-> FALSE]
        ELSE IF task_running(run, tasks[i])
             THEN LET r == LoopingCall_stop(run, tasks[i])
                  IN  IF r.raised THEN r ELSE stop_tasks(r.running, i + 1)
             ELSE stop_tasks(run, i + 1)

\* ------------------------------------------------------------------- Init
\* The spider is constructed, its three looping calls are started and
\* start_requests has scheduled seeds[d] seed requests for domain d (no
\* node_id, priority 0).
InitSeeds(seeds) ==
    /\ G = <<>>
    /\ edges = {}
    /\ node_ids = 0
    /\ response_count = 0
    /\ scores_recalculated_at = 0
    /\ domain_scores = <<>>
    /\ rl_model = ZeroModel
    /\ queues = [d \in Domains |->
                    [i \in 1..seeds[d] |-> [node_id |-> None, priority |-> 0]]]
    /\ inflight = {}
    /\ parsing = {}
    /\ learned = [node |-> None, observed |-> get_constant_scores(0),
                  s_t |-> get_constant_scores(0), s_t1 |-> get_constant_scores(0),
                  r_t1 |-> 0, a_t |-> None, a_t1 |-> None, updated |-> FALSE,
                  target2 |-> 0]
    /\ running = Tasks
    /\ is_closed = FALSE
    /\ crawl_pickle = <<>>
    /\ closed_raised = FALSE

\* one seed per domain
Init == InitSeeds([d \in Domains |-> 1])

\* ---------------------------------------------------------------- actions
\* the engine takes the next request for download: the scheduler serves
\* domain d
Pop(d) ==
    /\ ~is_closed
    /\ d \in BPQ_pop_domains(queues, get_scheduler_queue.eps)
    /\ Cardinality(inflight) + Cardinality(parsing) < ConcurrentRequests
    /\ inflight' = inflight \cup {[node_id |-> queues[d][RPQ_top(queues[d])].node_id,
                                   domain |-> d]}
    /\ queues' = [queues EXCEPT ![d] = RPQ_pop(@)]
    /\ UNCHANGED <<G, edges, node_ids, response_count, scores_recalculated_at,
                   domain_scores, rl_model, parsing, learned, task_vars>>

\* generate_out_nodes, one turn of its loop: node c and the edge to it are
\* added, the request is given its priority and handed to the scheduler
Emit(g, c, parent, link) ==
    LET d == g[parent].domain
        es1 == add_edge(edges, parent, c, link)
    IN  /\ G' = (c :> new_node(d, FALSE, "unknown")) @@ g
        /\ edges' = es1
        /\ node_ids' = c + 1
        /\ queues' = [queues EXCEPT ![d] = RPQ_push(@,
                [node_id |-> c,
                 priority |-> get_request_priority(domain_scores, rl_model, es1, d, c)])]
        /\ UNCHANGED <<domain_scores, rl_model, learned>>

\* the tail of parse: learn_from_response
Finish(g, next_id, node_id, response_scores) ==
    LET r == learn_from_response(g, edges, domain_scores, rl_model, queues,
                                 node_id, response_scores)
    IN  /\ G' = r.G
        /\ domain_scores' = r.ds
        /\ rl_model' = r.m
        /\ queues' = r.qs
        /\ learned' = r.learned
        /\ node_ids' = next_id
        /\ UNCHANGED edges

\* parse(response), from its start to its first yield, or to its end when
\* it yields nothing.  ok: status 200 with a text body; response_scores:
\* response_max_scores(response); link: the first extracted link, None when
\* the page has none; cap: the number of nodes the crawl is followed to.
ParseStartUpTo(req, ok, response_scores, link, cap) ==
    /\ ~is_closed
    /\ req \in inflight
    /\ req.node_id = None => node_ids < cap
    /\ ~ok => response_scores = get_constant_scores(0) /\ link = None
    /\ LET node_id == response_node_id(req.node_id, node_ids)
           next_id == ids_after_response(req.node_id, node_ids)
           g1 == update_response_node(G, node_id, req.domain, ok)
       IN  /\ response_count' = response_count + 1
           /\ inflight' = inflight \ {req}
           /\ IF g1[node_id].ok = "ok" /\ link # None
              THEN /\ next_id < cap
                   /\ Emit(g1, next_id, node_id, link)
                   /\ parsing' = parsing \cup
                          {[node_id |-> node_id, response_scores |-> response_scores]}
              ELSE /\ Finish(g1, next_id, node_id, response_scores)
                   /\ parsing' = parsing
    /\ UNCHANGED <<scores_recalculated_at, task_vars>>

ParseStart(req, ok, response_scores, link) ==
    ParseStartUpTo(req, ok, response_scores, link, MaxNodes)

\* parse(response) resumed after a yield: the next link, or, when the links
\* are exhausted (link = None), learn_from_response
ParseResume(p, link) ==
    /\ ~is_closed
    /\ p \in parsing
    /\ IF link # None
       THEN /\ node_ids < MaxNodes
            /\ Emit(G, node_ids, p.node_id, link)
            /\ parsing' = parsing
       ELSE /\ Finish(G, node_ids, p.node_id, p.response_scores)
            /\ parsing' = parsing \ {p}
    /\ UNCHANGED <<response_count, scores_recalculated_at, inflight,
                   task_vars>>

\* on_offdomain_request_dropped(request): the offsite middleware refuses a
\* request that is being downloaded
OffDomainDrop(req) ==
    /\ ~is_closed
    /\ req \in inflight
    /\ inflight' = inflight \ {req}
    /\ G' = drop_graph(G, req)
    /\ UNCHANGED <<edges, node_ids, response_count, scores_recalculated_at,
                   domain_scores, rl_model, queues, parsing, learned,
                   task_vars>>

\* the priority of the request of node fail cannot be computed:
\* get_request_priority raises (int() of a prediction that is not finite).
\* An estimator that is not trained predicts 0.0, and int(0.0) is computed.
sweep_fails(qs, m, d, fail) ==
    /\ m.trained
    /\ fail # None
    /\ ~not_node_id(fail)
    /\ \E i \in 1..Len(qs[d]) : qs[d][i].node_id = fail

\* the orders in which get_domains() may list the domains dom: the
\* scheduler lists them in an order of its own, which the spider does not
\* choose
RECURSIVE domain_orders(_)
domain_orders(dom) ==
    IF dom = {} THEN {<<>>}
    ELSE UNION {{<<d>> \o rest : rest \in domain_orders(dom \ {d})} : d \in dom}

\* the loop of update_request_priorities over the domains, in the order
\* get_domains() lists them: the queues after it, and whether it was ended
\* by an exception.  Nothing catches what _get_priority raises: the domains
\* listed before the failing one are re-scored, the queue it was raised in
\* and those after it are left as they were.
RECURSIVE sweep_queues(_, _, _, _, _, _)
sweep_queues(qs, ds, m, es, order, fail) ==
    IF order = <<>> THEN [qs |-> qs, raised |-> FALSE]
    ELSE LET d == Head(order)
         IN  IF sweep_fails(qs, m, d, fail)
             THEN [qs |-> qs, raised |-> TRUE]
             ELSE sweep_queues(update_domain_request_priorities(qs, ds, m, es, d),
                               ds, m, es, Tail(order), fail)

\* update_request_priorities(min_response_count=arg), with get_domains()
\* listing the domains in the order given.  The looping call passes no
\* argument (arg = None) and stops running when the call raises.
UpdateRequestPriorities(arg, order, fail) ==
    /\ IF arg = None THEN "update_link_scores" \in running ELSE ~is_closed
    /\ IF too_few_responses(arg, domain_scores, response_count, scores_recalculated_at)
       THEN UNCHANGED vars
       ELSE LET r == sweep_queues(queues, domain_scores, rl_model, edges,
                                  order, fail)
            IN  /\ queues' = r.qs
                /\ scores_recalculated_at' =
                       IF r.raised THEN scores_recalculated_at ELSE response_count
                /\ running' = IF r.raised /\ arg = None
                              THEN running \ {"update_link_scores"}
                              ELSE running
                /\ UNCHANGED <<G, edges, node_ids, response_count, domain_scores,
                               rl_model, inflight, parsing, learned,
                               is_closed, crawl_pickle, closed_raised>>

\* print_stats, fired by log_task: it reads and logs
PrintStats ==
    /\ "log" \in running
    /\ UNCHANGED vars

\* checkpoint, fired by checkpoint_task: the graph is written to a file of
\* its own, named by the time.  saved = FALSE: the write raises, and the
\* looping call stops running.
Checkpoint(saved) ==
    /\ "checkpoint" \in running
    /\ running' = IF saved THEN running ELSE running \ {"checkpoint"}
    /\ UNCHANGED <<G, edges, node_ids, response_count, scores_recalculated_at,
                   domain_scores, rl_model, queues, inflight, parsing, learned,
                   is_closed, crawl_pickle, closed_raised>>

\* closed(reason): the engine calls it once, when no request is being
\* downloaded and no response is being processed.  It stops the tasks and
\* then calls save_crawl_graph('crawl.pickle.gz').  saved = FALSE: the write
\* raises; nothing in closed catches it, and no file is written.
Closed(saved) ==
    /\ ~is_closed
    /\ inflight = {}
    /\ parsing = {}
    /\ LET r == stop_tasks(running, 1)
       IN  /\ running' = r.running
           /\ crawl_pickle' =
                  IF r.raised \/ ~saved THEN crawl_pickle
                  ELSE Append(crawl_pickle,
                              [G |-> G, edges |-> edges, running |-> r.running,
                               stopped |-> running \ r.running])
           /\ closed_raised' = (r.raised \/ ~saved)
    /\ is_closed' = TRUE
    /\ UNCHANGED <<G, edges, node_ids, response_count, scores_recalculated_at,
                   domain_scores, rl_model, queues, inflight, parsing, learned>>

\* the node ids of the queued requests
queued_node_ids(qs) ==
    UNION {{qs[d][i].node_id : i \in 1..Len(qs[d])} : d \in Domains} \ {None}

\* what a call of update_request_priorities(arg) meets: nothing when it
\* returns before its sweep; otherwise the order in which get_domains()
\* lists the domains and, with a trained estimator, the queued request
\* whose priority cannot be computed (None: every priority is computed)
sweep_inputs(arg) ==
    IF too_few_responses(arg, domain_scores, response_count, scores_recalculated_at)
    THEN {[order |-> <<>>, fail |-> None]}
    ELSE [order : domain_orders(get_domains(queues)),
          fail : (IF rl_model.trained THEN queued_node_ids(queues) ELSE {})
                     \cup {None}]

Next ==
    \/ \E d \in Domains : Pop(d)
    \/ \E req \in inflight, ok \in BOOLEAN, sc \in ScoreDicts, link \in LinkKinds \cup {None} :
           ParseStart(req, ok, sc, link)
    \/ \E p \in parsing, link \in LinkKinds \cup {None} : ParseResume(p, link)
    \/ \E req \in inflight : OffDomainDrop(req)
    \/ \E arg \in {None, ExplicitMinResponseCount} : \E in \in sweep_inputs(arg) :
           UpdateRequestPriorities(arg, in.order, in.fail)
    \/ PrintStats
    \/ \E saved \in BOOLEAN : Checkpoint(saved)
    \/ \E saved \in BOOLEAN : Closed(saved)

Spec == Init /\ [][Next]_vars

\* A long crawl: ManySeeds seed urls of domain 1 and one of every other
\* domain, downloaded one at a time, every fetch a failure; the looping call
\* of update_request_priorities fires at any moment.
InitLong == InitSeeds([d \in Domains |-> IF d = 1 THEN ManySeeds ELSE 1])

NextLong ==
    \/ \E d \in Domains : inflight = {} /\ Pop(d)
    \/ \E req \in inflight :
           ParseStartUpTo(req, FALSE, get_constant_scores(0), None,
                          ManySeeds + NumDomains)
    \/ \E order \in domain_orders(get_domains(queues)) :
           UpdateRequestPriorities(None, order, None)

SpecLong == InitLong /\ [][NextLong]_vars

TypeOK ==
    /\ node_ids \in 0..MaxNodes
    /\ DOMAIN G = 0..(node_ids - 1)
    /\ \A n \in DOMAIN G : G[n].scores \in [ScoreTypes -> Int]
    /\ DOMAIN domain_scores \subseteq Domains
    /\ rl_model.trained \in BOOLEAN
    /\ running \subseteq Tasks
    /\ is_closed \in BOOLEAN
    /\ Len(crawl_pickle) <= 1
    /\ closed_raised \in BOOLEAN
    /\ closed_raised => is_closed

\* ----------------------------------------------------------------- claims
IsPrefix(q1, q2) ==
    /\ Len(q1) <= Len(q2)
    /\ \A i \in 1..Len(q1) : q1[i] = q2[i]

InQueue(d, node_id) == \E i \in 1..Len(queues[d]) : queues[d][i].node_id = node_id

\* a step of learn_from_response: every node learns once, so the record changes
LearnStep == learned' # learned

\* C1: every node of the crawl graph has scores if and only if it is
\* visited, in every reachable state, the states in which parse is
\* suspended at a yield included.
C1_ScoresIffVisited ==
    \A n \in DOMAIN G : G[n].has_scores <=> G[n].visited

\* C2: for every domain and every score type the domain state never
\* decreases in any step.
C2_DomainStateMonotone ==
    [][\A d \in Domains : \A k \in ScoreTypes :
          get_domain_state(domain_scores', d)[k] >= get_domain_state(domain_scores, d)[k]]_vars

\* C2 witness: a page was processed whose observed scores are below the best
\* of its domain, and the domain state kept its value.
C2_Witness ==
    /\ learned.node # None
    /\ G[learned.node].ok = "ok"
    /\ \E k \in ScoreTypes :
          /\ learned.observed[k] < learned.s_t[k]
          /\ get_domain_state(domain_scores, G[learned.node].domain)[k] >= learned.s_t[k]

\* C3: the reward of learn_from_response is never negative, whatever the
\* domain state and the observed scores.
C3_RewardNonNegative ==
    /\ learned.r_t1 >= 0
    /\ \A o \in ScoreDicts : \A st \in ScoreDicts : reward(o, st) >= 0

\* C3 witness: a response regressed below the domain's best in every score
\* type and its reward was 0.
C3_Witness ==
    /\ learned.node # None
    /\ \A k \in ScoreTypes : learned.observed[k] < learned.s_t[k]
    /\ learned.r_t1 = 0

\* C4: the reward is the sum over score types of max(observed - s_t, 0)
\* with s_t the domain state before the merge of this response's scores;
\* the estimator is handed that s_t, and as s_t1 the state after the merge.
C4_RewardAgainstPreMergeState ==
    [][LearnStep =>
        LET n == learned'.node
            d == G'[n].domain
            before == get_domain_state(domain_scores, d)
            after == get_domain_state(domain_scores', d)
        IN  /\ learned'.observed = G'[n].scores
            /\ learned'.s_t = before
            /\ learned'.s_t1 = after
            /\ learned'.r_t1 =
                   SumScores([k \in ScoreTypes |-> Max(G'[n].scores[k] - before[k], 0)])
            /\ learned'.updated =>
                   rl_model' = TDRegressor_update(rl_model, before, learned'.a_t,
                                                  learned'.r_t1, after, learned'.a_t1)]_vars

\* C4 witness: a response raised its domain's state, was rewarded for it
\* and was learned from.
C4_Witness ==
    /\ learned.updated
    /\ learned.s_t # learned.s_t1
    /\ learned.r_t1 > 0

\* the node discovered by this step, if any: a new unvisited node
Discovered(c) == c \notin DOMAIN G /\ c \in DOMAIN G' /\ ~G'[c].visited

\* C5: the priority of a link discovered on a page is predicted from the
\* domain state that already includes the page's own observed scores.
C5_PriorityFromUpdatedState ==
    [][\A c \in NodeIds : \A e \in edges' : \A p \in parsing' :
          (Discovered(c) /\ e.dst = c /\ p.node_id = e.src) =>
              LET d == G'[c].domain
                  merged == get_domain_state(
                                MaxScores_update(domain_scores, d, p.response_scores), d)
                  pushed == queues'[d][Len(queues'[d])]
              IN  /\ pushed.node_id = c
                  /\ pushed.priority =
                         ToInt(TDRegressor_predict(rl_model, merged, e.link),
                               WeightScale \div FLOAT_PRIORITY_MULTIPLIER)]_vars

\* a callback other than the suspended parse runs
OtherCallback ==
    \/ \E req \in inflight, ok \in BOOLEAN, sc \in ScoreDicts, link \in LinkKinds \cup {None} :
           ParseStart(req, ok, sc, link)
    \/ \E req \in inflight : OffDomainDrop(req)
    \/ \E order \in domain_orders(get_domains(queues)) :
           UpdateRequestPriorities(None, order, None)

\* C6: the processing of a response runs as one uninterrupted step: between
\* its graph update and its learning update no other callback runs.
C6_ResponseProcessingAtomic ==
    [][parsing # {} => ~OtherCallback]_vars

\* a step of parse on a seed node (a node with no incoming edge)
SeedStep ==
    \/ \E req \in inflight, ok \in BOOLEAN, sc \in ScoreDicts, link \in LinkKinds \cup {None} :
           req.node_id = None /\ ParseStart(req, ok, sc, link)
    \/ \E p \in parsing, link \in LinkKinds \cup {None} :
           get_action(edges, p.node_id) = None /\ ParseResume(p, link)

\* C7: processing the response of a seed node never updates the estimator
\* and re-prioritises no queue, while the node's scores and the domain state
\* are still updated.
C7_SeedNeverLearns ==
    [][SeedStep =>
        /\ rl_model' = rl_model
        /\ \A d \in Domains : IsPrefix(queues[d], queues'[d])
        /\ LearnStep =>
              LET n == learned'.node
                  d == G'[n].domain
              IN  /\ ~learned'.updated
                  /\ G'[n].has_scores
                  /\ d \in DOMAIN domain_scores'
                  /\ domain_scores'[d] =
                         [k \in ScoreTypes |->
                             Max(get_domain_state(domain_scores, d)[k], G'[n].scores[k])]]_vars

\* C7 witness: a seed response with a reward above the re-prioritisation
\* threshold was processed while the estimator was trained and requests of
\* its domain were queued.
C7_Witness ==
    /\ learned.node # None
    /\ get_action(edges, learned.node) = None
    /\ G[learned.node].has_scores
    /\ learned.r_t1 > RewardThreshold
    /\ rl_model.trained
    /\ queues[G[learned.node].domain] # <<>>

\* C8: update trains towards r_t1 when a_t1 is absent or the model was never
\* trained, else towards r_t1 + gamma * predict(s_t1, a_t1) under the weights
\* before the step; after an update the model is trained.
C8_TDTarget ==
    [][(LearnStep /\ learned'.updated) =>
        LET r == learned'.r_t1 * (WeightScale \div ScoreScale)
            target2 == IF learned'.a_t1 = None \/ ~rl_model.trained
                       THEN GammaDen * r
                       ELSE GammaDen * r
                            + GammaNum * Q_predict(rl_model, learned'.s_t1, learned'.a_t1)
        IN  /\ learned'.target2 = target2
            /\ rl_model' = Q_partial_fit(rl_model, learned'.s_t, learned'.a_t, target2)
            /\ rl_model'.trained]_vars

\* C8 witness: an update bootstrapped from a non-zero prediction at the next
\* request.
C8_Witness ==
    /\ learned.updated
    /\ learned.a_t1 # None
    /\ learned.target2 # GammaDen * learned.r_t1 * (WeightScale \div ScoreScale)

\* C9: while no estimator update has happened predict is 0 for every state
\* and action, and every queued request has priority 0.
C9_UntrainedPredictsZero ==
    ~rl_model.trained =>
        /\ \A st \in ScoreDicts : \A a \in LinkKinds :
              TDRegressor_predict(rl_model, st, a) = 0
        /\ \A d \in Domains : \A i \in 1..Len(queues[d]) : queues[d][i].priority = 0

\* C9 witness: before any update, a link discovered on a page of a domain
\* whose state is already non-zero is queued.
C9_Witness ==
    /\ ~rl_model.trained
    /\ \E e \in edges :
          LET d == G[e.dst].domain
          IN  /\ InQueue(d, e.dst)
              /\ G[e.src].has_scores = FALSE
              /\ get_action(edges, e.src) # None
              /\ \E k \in ScoreTypes : get_domain_state(domain_scores, d)[k] > 0

\* a fetch failure of req, or an off-domain drop of a request with a node
FailureOrDrop(req) ==
    \/ ParseStart(req, FALSE, get_constant_scores(0), None)
    \/ req.node_id # None /\ OffDomainDrop(req)

\* C10: after a fetch failure and after an off-domain drop of node n of
\* domain D, n is visited with ok false and all-zero scores, D is known to
\* the tracker and state(D) is unchanged.
C10_FailureAndDropCountAsZeroUpdate ==
    [][\A req \in inflight :
          FailureOrDrop(req) =>
              LET n == IF req.node_id = None THEN node_ids ELSE req.node_id
                  d == req.domain
              IN  /\ G'[n].visited
                  /\ G'[n].ok = "failed"
                  /\ G'[n].has_scores
                  /\ G'[n].scores = get_constant_scores(0)
                  /\ d \in DOMAIN domain_scores'
                  /\ domain_scores'[d] = get_domain_state(domain_scores, d)]_vars

\* the requests of queue q in the order a run of pops returns them
RECURSIVE pop_order(_)
pop_order(q) ==
    IF q = <<>> THEN <<>> ELSE <<q[RPQ_top(q)]>> \o pop_order(RPQ_pop(q))

\* the queue of the scenario: A, B and C (nodes 1, 2, 3) pushed in this
\* order, then re-scored to 10, 5 and 20
ScenarioQueue ==
    LET pushed == RPQ_push(RPQ_push(RPQ_push(<<>>,
                      [node_id |-> 1, priority |-> 0]),
                      [node_id |-> 2, priority |-> 0]),
                      [node_id |-> 3, priority |-> 0])
        fn == [req \in {pushed[i] : i \in 1..3} |->
                  IF req.node_id = 1 THEN 10 ELSE IF req.node_id = 2 THEN 5 ELSE 20]
    IN  RPQ_update_all_priorities(pushed, fn)

\* C11: whatever pushes and re-scorings a domain queue has seen, a run of
\* pops returns all its requests, in non-increasing order of their current
\* priority and, among equal priorities, in the order they were pushed
\* (node ids are handed out in push order); A, B, C re-scored to 10, 5, 20
\* pop as C, A, B.
C11_PopOrder ==
    /\ \A d \in Domains :
          LET o == pop_order(queues[d])
          IN  /\ Len(o) = Len(queues[d])
              /\ \A i \in 1..Len(queues[d]) : \E j \in 1..Len(o) : o[j] = queues[d][i]
              /\ \A i \in 1..(Len(o) - 1) :
                    \/ o[i].priority > o[i + 1].priority
                    \/ /\ o[i].priority = o[i + 1].priority
                       /\ o[i].node_id < o[i + 1].node_id
    /\ [i \in 1..3 |-> pop_order(ScenarioQueue)[i].node_id] = <<3, 1, 2>>

\* C11 witness: a domain queue holds a request with a higher priority than
\* a request pushed before it, so that it is popped out of push order.
C11_Witness ==
    \E d \in Domains : \E i, j \in 1..Len(queues[d]) :
        /\ i < j
        /\ queues[d][j].priority > queues[d][i].priority
        /\ pop_order(queues[d])[1] = queues[d][j]

\* a call of update_request_priorities that gets to its sweep, and in which
\* every priority can be computed
SweepStep ==
    \E arg \in {None, ExplicitMinResponseCount},
       order \in domain_orders(get_domains(queues)) :
        /\ ~too_few_responses(arg, domain_scores, response_count, scores_recalculated_at)
        /\ UpdateRequestPriorities(arg, order, None)

\* C12: a sweep leaves the requests of every domain queue as they were and
\* gives every request with a node id the priority
\* int(predict(state of its domain, incoming link) * FLOAT_PRIORITY_MULTIPLIER)
\* under the estimator of that moment, and the last-sweep marker becomes the
\* response count.
C12_SweepRescoresEveryDomain ==
    [][SweepStep =>
        /\ \A d \in Domains :
              /\ Len(queues'[d]) = Len(queues[d])
              /\ \A i \in 1..Len(queues[d]) :
                    /\ queues'[d][i].node_id = queues[d][i].node_id
                    /\ queues[d][i].node_id # None =>
                          queues'[d][i].priority =
                              ToInt(TDRegressor_predict(rl_model,
                                        get_domain_state(domain_scores, d),
                                        get_action(edges, queues[d][i].node_id)),
                                    WeightScale \div FLOAT_PRIORITY_MULTIPLIER)
        /\ scores_recalculated_at' = response_count']_vars

\* C12 witness: a sweep has run since the last response, the estimator is
\* trained, and a queued request with a node id has a priority that is not
\* the untrained one.
C12_Witness ==
    /\ scores_recalculated_at = response_count
    /\ scores_recalculated_at > 0
    /\ rl_model.trained
    /\ \E d \in Domains : \E i \in 1..Len(queues[d]) :
          /\ queues[d][i].node_id # None
          /\ queues[d][i].priority # 0
          /\ queues[d][i].priority =
                 get_request_priority(domain_scores, rl_model, edges, d,
                                      queues[d][i].node_id)

\* C13: the looping call's update_request_priorities gets to its sweep once
\* the responses since the last sweep have reached max(500, number of
\* domains seen), and only then (a call that does not get there changes
\* nothing); the last-sweep marker never exceeds the response count.
C13_SweepsOnceThresholdReached ==
    /\ ~too_few_responses(None, domain_scores, response_count, scores_recalculated_at)
           <=> response_count - scores_recalculated_at
                   >= Max(MinResponseCountFloor, MaxScores_len(domain_scores))
    /\ scores_recalculated_at <= response_count

\* C14: when the priority of one queued request cannot be computed during a
\* sweep, the sweep still completes, in whichever order it takes the
\* domains: that request keeps its priority, every other request with a
\* node id, in every domain, is re-scored, and every queue keeps its
\* requests.
C14_FailedEntryKeepsPriority ==
    \A fail \in queued_node_ids(queues), order \in domain_orders(get_domains(queues)) :
        LET r == sweep_queues(queues, domain_scores, rl_model, edges,
                              order, fail)
        IN  /\ ~r.raised
            /\ \A d \in Domains :
                  /\ Len(r.qs[d]) = Len(queues[d])
                  /\ \A i \in 1..Len(queues[d]) :
                        /\ r.qs[d][i].node_id = queues[d][i].node_id
                        /\ r.qs[d][i].priority =
                               IF queues[d][i].node_id \in {fail, None}
                               THEN queues[d][i].priority
                               ELSE get_request_priority(domain_scores, rl_model,
                                        edges, d, queues[d][i].node_id)

\* C16: the off-domain drop of a request without a node id changes neither
\* the crawl graph (nodes, attributes, edges) nor a domain state, the
\* estimator or a queue.
C16_DropWithoutNodeIdSkipped ==
    [][\A req \in inflight :
          (req.node_id = None /\ OffDomainDrop(req)) =>
              /\ G' = G
              /\ edges' = edges
              /\ domain_scores' = domain_scores
              /\ rl_model' = rl_model
              /\ queues' = queues]_vars

\* C16 witness: the seed request of a domain was dropped: it is neither
\* queued nor being downloaded, and the graph has no node of the domain.
C16_Witness ==
    \E d \in Domains :
        /\ queues[d] = <<>>
        /\ \A req \in inflight : req.domain # d
        /\ \A n \in DOMAIN G : G[n].domain # d
        /\ ~is_closed

Swept(qs) ==
    {sweep_queues(qs, domain_scores, rl_model, edges, order, None).qs :
         order \in domain_orders(get_domains(qs))}

\* C18: in every reachable state a second re-prioritisation right after a
\* first, of one domain or of all, changes no priority and no pop order.
C18_SweepIdempotent ==
    /\ \A once \in Swept(queues) : Swept(once) = {once}
    /\ \A d \in Domains :
          LET once == update_domain_request_priorities(queues, domain_scores,
                          rl_model, edges, d)
              twice == update_domain_request_priorities(once, domain_scores,
                           rl_model, edges, d)
          IN  /\ twice = once
              /\ pop_order(twice[d]) = pop_order(once[d])

\* C18 witness: the estimator is trained and the first run changes the
\* priority of a queued request.
C18_Witness ==
    /\ rl_model.trained
    /\ \E once \in Swept(queues) : once # queues

\* C19: after every step each node has at most one incoming edge; a node
\* created by link discovery (unvisited when created) has exactly one, a
\* node created from a seed response (visited when created) has none, and
\* the incoming edges of a node never change afterwards.
C19_OneIncomingEdge ==
    [][/\ \A n \in DOMAIN G' :
             Cardinality(incoming_link_dicts(edges', n)) <= 1
       /\ \A n \in DOMAIN G :
             incoming_link_dicts(edges', n) = incoming_link_dicts(edges, n)
       /\ \A n \in DOMAIN G' \ DOMAIN G :
             IF G'[n].visited
             THEN incoming_link_dicts(edges', n) = {}
             ELSE Cardinality(incoming_link_dicts(edges', n)) = 1]_vars

\* C19 witness: the same link was discovered on two different pages of a
\* domain, and each discovery has a node of its own.
C19_Witness ==
    \E e1, e2 \in edges :
        /\ e1.src # e2.src
        /\ e1.dst # e2.dst
        /\ e1.link = e2.link
        /\ G[e1.dst].domain = G[e2.dst].domain
        /\ get_action(edges, e1.dst) = e1.link
        /\ get_action(edges, e2.dst) = e2.link

\* C20: node id 0 is the node of the first seed response and never a
\* discovered node: every queued or downloading request with a node id, and
\* every node an edge leads to, has an id of at least 1, so that "not
\* node_id" holds of no request that has a node id.
C20_DiscoveredIdsPositive ==
    /\ \A d \in Domains : \A i \in 1..Len(queues[d]) :
          queues[d][i].node_id # None =>
              queues[d][i].node_id >= 1 /\ ~not_node_id(queues[d][i].node_id)
    /\ \A req \in inflight :
          req.node_id # None => req.node_id >= 1 /\ ~not_node_id(req.node_id)
    /\ \A e \in edges : e.dst >= 1
    /\ 0 \in DOMAIN G => G[0].visited /\ get_action(edges, 0) = None

\* C20 witness: the first seed response has node 0, the first link
\* discovered on it has node 1, and its request is queued.
C20_Witness ==
    /\ 0 \in DOMAIN G
    /\ \E e \in edges : e.src = 0 /\ e.dst = 1
    /\ \E d \in Domains : InQueue(d, 1)

====
